---- MODULE Spec2Model ----
(***************************************************************************)
(* A model of pythclient/pythaccounts.py: the decoders of Pyth accounts    *)
(* (header, mapping, product, price) over byte buffers, and the price      *)
(* chain operations of PythProductAccount (refresh_prices, get_prices,     *)
(* check_price_changes, use_price_accounts) as interleaved coroutines.     *)
(*                                                                         *)
(* Bytes are naturals 0..255 and a buffer is a sequence of bytes; Python's *)
(* 0-based offsets are kept and turned into 1-based indices where a        *)
(* sequence is read. A function that can raise returns a record whose      *)
(* field raised says whether it did.                                       *)
(***************************************************************************)
EXTENDS Integers, Sequences, FiniteSets, TLC

\* Python's None is the empty sequence; a field that may be None and is
\* no key or string holds Some(x) otherwise, and Val gives the x back
None == <<>>

Some(x) == <<x>>

Val(o) == o[1]

Min(a, b) == IF a < b THEN a ELSE b

\* Python's buffer[a:b] for 0 <= a <= b: clamped to the buffer, never an error
Slice(buffer, a, b) == SubSeq(buffer, a + 1, Min(b, Len(buffer)))

\* n zero bytes
Zeros(n) == [i \in 1..n |-> 0]

RECURSIVE LE(_)
\* the unsigned little-endian value of a byte sequence ("<I", "<Q")
LE(bs) == IF bs = <<>> THEN 0 ELSE Head(bs) + 256 * LE(Tail(bs))

\* the signed (two's complement) little-endian value ("<i", "<q")
Signed(bs) ==
    IF bs # <<>> /\ bs[Len(bs)] >= 128
    THEN -(LE([i \in 1..Len(bs) |-> 255 - bs[i]]) + 1)
    ELSE LE(bs)

\* struct.unpack_from(fmt, buffer, offset) raises struct.error unless the
\* buffer holds calcsize(fmt) bytes from offset on
CanUnpack(buffer, offset, size) == Len(buffer) - offset >= size

(***************************************************************************)
(* Python dicts: a sequence of [k, v] entries in insertion order. Setting  *)
(* a key that is present replaces the value and keeps the position.        *)
(***************************************************************************)
DictKeys(d) == {d[i].k : i \in 1..Len(d)}

DictHas(d, k) == k \in DictKeys(d)

DictGet(d, k) == d[CHOOSE i \in 1..Len(d) : d[i].k = k].v

DictSet(d, k, v) ==
    IF DictHas(d, k)
    THEN [i \in 1..Len(d) |-> IF d[i].k = k THEN [k |-> k, v |-> v] ELSE d[i]]
    ELSE Append(d, [k |-> k, v |-> v])

\* list(d.values())
DictValues(d) == [i \in 1..Len(d) |-> d[i].v]

\* d.pop(k, None): the dict without k
DictDel(d, k) ==
    LET keep == {i \in 1..Len(d) : d[i].k # k}
        F[n \in 0..Len(d)] ==
            IF n = 0 THEN <<>>
            ELSE IF n \in keep THEN Append(F[n - 1], d[n]) ELSE F[n - 1]
    IN F[Len(d)]

(***************************************************************************)
(* Module constants                                                        *)
(***************************************************************************)
\* 0xA1B2C3D4 as its four little-endian bytes (the value is beyond TLC's
\* 32-bit integers, so the magic is compared bytewise)
_MAGIC == <<212, 195, 178, 161>>

_VERSION_1 == 1

_VERSION_2 == 2

_SUPPORTED_VERSIONS == {_VERSION_1, _VERSION_2}

_ACCOUNT_HEADER_BYTES == 16

\* SolanaPublicKey.LENGTH
KeyLength == 32

_NULL_KEY_BYTES == Zeros(KeyLength)

\* the values of the enums PythAccountType, PythPriceStatus, PythPriceType
PythAccountType == 0..3

MAPPING == 1

PRODUCT == 2

PRICE == 3

PythPriceStatus == 0..3

PythPriceType == 0..3

\* TwEmaType.TWAPVALUE and TwEmaType.TWACVALUE
TWAPVALUE == 1

TWACVALUE == 4

\* PythPriceInfo.LENGTH and PythPriceComponent.LENGTH
PriceInfoLength == 32

PriceComponentLength == KeyLength + 2 * PriceInfoLength

(***************************************************************************)
(* Primitive decoders                                                      *)
(***************************************************************************)
\* SolanaPublicKey(bytes): raises ValueError unless given 32 bytes
SolanaPublicKey(bytes) ==
    IF Len(bytes) # KeyLength THEN [raised |-> TRUE, key |-> None]
    ELSE [raised |-> FALSE, key |-> bytes]

_read_public_key_or_none(buffer, offset) ==
    LET b == Slice(buffer, offset, offset + KeyLength)
    IN IF b = _NULL_KEY_BYTES THEN [raised |-> FALSE, key |-> None]
       ELSE SolanaPublicKey(b)

\* the continuation bytes that the lead byte b of a UTF-8 sequence needs; 0
\* for a byte that leads no sequence of more than one byte
Utf8Need(b) ==
    IF b >= 194 /\ b < 224 THEN 1
    ELSE IF b >= 224 /\ b < 240 THEN 2
    ELSE IF b >= 240 /\ b < 245 THEN 3
    ELSE 0

\* byte c is a valid i-th continuation byte after the lead byte b: the first
\* one is restricted after 0xE0, 0xED, 0xF0 and 0xF4 (no overlong forms, no
\* surrogates, nothing above U+10FFFF)
Utf8Continues(b, i, c) ==
    IF i > 1 THEN c >= 128 /\ c < 192
    ELSE /\ c >= (IF b = 224 THEN 160 ELSE IF b = 240 THEN 144 ELSE 128)
         /\ c <= (IF b = 237 THEN 159 ELSE IF b = 244 THEN 143 ELSE 191)

\* the number of valid continuation bytes that follow the lead byte of data,
\* no more than it needs
Utf8Valid(data) ==
    LET b == Head(data)
        ok == {n \in 0..Min(Utf8Need(b), Len(data) - 1) :
                \A i \in 1..n : Utf8Continues(b, i, data[i + 1])}
    IN CHOOSE n \in ok : \A m \in ok : m <= n

\* the code point of the sequence of n + 1 bytes at the head of data
Utf8CodePoint(data, n) ==
    CASE n = 1 -> (data[1] - 192) * 64 + (data[2] - 128)
      [] n = 2 -> (data[1] - 224) * 4096 + (data[2] - 128) * 64 + (data[3] - 128)
      [] n = 3 -> (data[1] - 240) * 262144 + (data[2] - 128) * 4096
                  + (data[3] - 128) * 64 + (data[4] - 128)

RECURSIVE Utf8Replace(_)
\* bytes.decode('utf8', 'replace') as a sequence of code points: a valid
\* sequence of one to four bytes gives its code point; a byte that leads no
\* sequence, or a lead byte with the valid continuation bytes that follow it
\* when the sequence is cut or broken, gives one U+FFFD
Utf8Replace(data) ==
    IF data = <<>> THEN <<>>
    ELSE LET b == Head(data)
             need == Utf8Need(b)
             got == Utf8Valid(data)
         IN IF b < 128 THEN <<b>> \o Utf8Replace(Tail(data))
            ELSE IF need > 0 /\ got = need
                 THEN <<Utf8CodePoint(data, need)>>
                      \o Utf8Replace(SubSeq(data, need + 2, Len(data)))
                 ELSE <<65533>> \o Utf8Replace(SubSeq(data, got + 2, Len(data)))

\* returns (string or None, new offset); buffer[offset] raises IndexError
\* when offset is past the end. The string is None for a length byte of 0
\* and a string otherwise, the empty string when the buffer ends with the
\* length byte.
_read_attribute_string(buffer, offset) ==
    IF offset >= Len(buffer) THEN [raised |-> TRUE, str |-> None, offset |-> offset]
    ELSE LET length == buffer[offset + 1]
             data_end == offset + 1 + length
         IN IF length = 0
            THEN [raised |-> FALSE, str |-> None, offset |-> offset]
            ELSE [raised |-> FALSE,
                  str |-> Some(Utf8Replace(Slice(buffer, offset + 1, data_end))),
                  offset |-> data_end]

\* _parse_header without its check of the version
ParseHeaderAnyVersion(buffer, offset) ==
    LET bad == [raised |-> TRUE, type_ |-> 0, size |-> 0, version |-> 0]
        magic == Slice(buffer, offset, offset + 4)
        version == LE(Slice(buffer, offset + 4, offset + 8))
        type_ == LE(Slice(buffer, offset + 8, offset + 12))
        size == LE(Slice(buffer, offset + 12, offset + 16))
    IN IF Len(buffer) - offset < _ACCOUNT_HEADER_BYTES THEN bad
       ELSE IF Len(buffer) < size THEN bad
       ELSE IF magic # _MAGIC THEN bad
       ELSE IF type_ \notin PythAccountType THEN bad
       ELSE [raised |-> FALSE, type_ |-> type_, size |-> size, version |-> version]

\* the header checks, in the order of the code
_parse_header(buffer, offset) ==
    LET bad == [raised |-> TRUE, type_ |-> 0, size |-> 0, version |-> 0]
        magic == Slice(buffer, offset, offset + 4)
        version == LE(Slice(buffer, offset + 4, offset + 8))
        type_ == LE(Slice(buffer, offset + 8, offset + 12))
        size == LE(Slice(buffer, offset + 12, offset + 16))
    IN IF Len(buffer) - offset < _ACCOUNT_HEADER_BYTES THEN bad
       ELSE IF Len(buffer) < size THEN bad
       ELSE IF magic # _MAGIC THEN bad
       ELSE IF version \notin _SUPPORTED_VERSIONS THEN bad
       ELSE IF type_ \notin PythAccountType THEN bad
       ELSE [raised |-> FALSE, type_ |-> type_, size |-> size, version |-> version]

(***************************************************************************)
(* Price primitives                                                        *)
(***************************************************************************)
\* PythPriceInfo.deserialise: "<qQIIQ" at offset; PythPriceStatus(status)
\* raises ValueError for a status that is no member of the enum
PriceInfoDeserialise(buffer, offset, exponent) ==
    LET status == LE(Slice(buffer, offset + 16, offset + 20))
    IN IF ~CanUnpack(buffer, offset, PriceInfoLength) \/ status \notin PythPriceStatus
       THEN [raised |-> TRUE, info |-> None]
       ELSE [raised |-> FALSE,
             info |-> [raw_price |-> Signed(Slice(buffer, offset, offset + 8)),
                       raw_confidence_interval |->
                           LE(Slice(buffer, offset + 8, offset + 16)),
                       price_status |-> status,
                       slot |-> LE(Slice(buffer, offset + 24, offset + 32)),
                       exponent |-> exponent]]

\* PythPriceComponent.deserialise: None for an all-zero publisher key
PriceComponentDeserialise(buffer, offset, exponent) ==
    LET key == _read_public_key_or_none(buffer, offset)
        last == PriceInfoDeserialise(buffer, offset + KeyLength, exponent)
        latest == PriceInfoDeserialise(buffer, offset + KeyLength + PriceInfoLength,
                                       exponent)
    IN IF key.raised THEN [raised |-> TRUE, none |-> TRUE]
       ELSE IF key.key = None THEN [raised |-> FALSE, none |-> TRUE]
       ELSE IF last.raised \/ latest.raised THEN [raised |-> TRUE, none |-> TRUE]
       ELSE [raised |-> FALSE, none |-> FALSE,
             component |-> [publisher_key |-> key.key,
                            last_aggregate_price_info |-> last.info,
                            latest_price_info |-> latest.info,
                            exponent |-> exponent]]

RECURSIVE PriceComponents(_, _, _)
\* the component loop of PythPriceAccount.update_from: until the end of the
\* buffer or an all-zero publisher key
PriceComponents(buffer, offset, exponent) ==
    IF ~(offset < Len(buffer)) THEN [raised |-> FALSE, list |-> <<>>]
    ELSE LET c == PriceComponentDeserialise(buffer, offset, exponent)
             rest == PriceComponents(buffer, offset + PriceComponentLength, exponent)
         IN IF c.raised THEN [raised |-> TRUE, list |-> <<>>]
            ELSE IF c.none THEN [raised |-> FALSE, list |-> <<>>]
            ELSE IF rest.raised THEN rest
            ELSE [raised |-> FALSE, list |-> <<c.component>> \o rest.list]

(***************************************************************************)
(* Record decoders. self is the account object, a record of its fields.    *)
(***************************************************************************)
\* PythMappingAccount.__init__
NewMapping(key) ==
    [key |-> key, slot |-> None, entries |-> <<>>, next_account_key |-> None]

\* PythProductAccount.__init__
NewProduct(key) ==
    [key |-> key, slot |-> None, _prices |-> None, attrs |-> <<>>,
     first_price_account_key |-> None]

\* PythPriceAccount.__init__
NewPrice(key) ==
    [key |-> key, slot |-> None, price_type |-> 0, exponent |-> None,
     num_components |-> 0, last_slot |-> 0, valid_slot |-> 0,
     product_account_key |-> None, next_price_account_key |-> None,
     aggregate_price_info |-> None, price_components |-> <<>>,
     derivations |-> <<>>]

RECURSIVE MappingEntriesUnique(_, _, _)
\* the loop over the key slots, were it to drop repeated keys as well
MappingEntriesUnique(buffer, offset, n) ==
    IF n = 0 THEN [raised |-> FALSE, entries |-> <<>>]
    ELSE LET new_key == SolanaPublicKey(Slice(buffer, offset + KeyLength * (n - 1),
                                              offset + KeyLength * n))
             rest == MappingEntriesUnique(buffer, offset, n - 1)
         IN IF rest.raised THEN rest
            ELSE IF new_key.raised THEN [raised |-> TRUE, entries |-> <<>>]
            ELSE IF new_key.key # _NULL_KEY_BYTES
                    /\ \A i \in 1..Len(rest.entries) : rest.entries[i] # new_key.key
                 THEN [raised |-> FALSE, entries |-> Append(rest.entries, new_key.key)]
                 ELSE rest

RECURSIVE MappingEntries(_, _, _)
\* the loop over the product key slots: a null key is skipped with a warning
MappingEntries(buffer, offset, n) ==
    IF n = 0 THEN [raised |-> FALSE, entries |-> <<>>]
    ELSE LET new_key == SolanaPublicKey(Slice(buffer, offset, offset + KeyLength))
             rest == MappingEntries(buffer, offset + KeyLength, n - 1)
         IN IF new_key.raised THEN [raised |-> TRUE, entries |-> <<>>]
            ELSE IF rest.raised THEN rest
            ELSE IF new_key.key # _NULL_KEY_BYTES
                 THEN [raised |-> FALSE, entries |-> <<new_key.key>> \o rest.entries]
                 ELSE rest

\* PythMappingAccount.update_from
MappingUpdateFrom(self, buffer, version, offset) ==
    LET num_entries == LE(Slice(buffer, offset, offset + 4))
        next_account_key == _read_public_key_or_none(buffer, offset + 8)
        got == MappingEntries(buffer, offset + 40, num_entries)
    IN IF ~CanUnpack(buffer, offset, 40) THEN [raised |-> TRUE, self |-> self]
       ELSE IF got.raised THEN [raised |-> TRUE, self |-> self]
       ELSE [raised |-> FALSE,
             self |-> [self EXCEPT !.entries = got.entries,
                                   !.next_account_key = next_account_key.key]]

RECURSIVE ProductAttrs(_, _, _)
\* the attribute loop of PythProductAccount.update_from: it ends at the end of
\* the buffer or at a key that is None; a key that is the empty string goes
\* on to the read of its value. An entry of attrs holds the key's string and
\* the value as read, None or a string.
ProductAttrs(buffer, offset, attrs) ==
    IF ~(offset < Len(buffer)) THEN [raised |-> FALSE, attrs |-> attrs]
    ELSE LET key == _read_attribute_string(buffer, offset)
             value == _read_attribute_string(buffer, key.offset)
         IN IF key.raised THEN [raised |-> TRUE, attrs |-> attrs]
            ELSE IF key.str = None THEN [raised |-> FALSE, attrs |-> attrs]
            ELSE IF value.raised THEN [raised |-> TRUE, attrs |-> attrs]
            ELSE ProductAttrs(buffer, value.offset,
                              DictSet(attrs, Val(key.str), value.str))

\* PythProductAccount.update_from, were it to empty the price set whatever the
\* first price key
ProductUpdateFromClears(self, buffer, version, offset) ==
    LET first_price_account_key_bytes == Slice(buffer, offset, offset + KeyLength)
        got == ProductAttrs(buffer, offset + KeyLength, <<>>)
        first == SolanaPublicKey(first_price_account_key_bytes)
    IN IF got.raised \/ first.raised THEN [raised |-> TRUE, self |-> self]
       ELSE [raised |-> FALSE,
             self |-> [self EXCEPT !.first_price_account_key =
                                        IF first.key = _NULL_KEY_BYTES THEN None
                                        ELSE first.key,
                                   !._prices = Some(<<>>),
                                   !.attrs = got.attrs]]

\* PythProductAccount.update_from: a null first price key also sets the
\* price set to the empty dict
ProductUpdateFrom(self, buffer, version, offset) ==
    LET first_price_account_key_bytes == Slice(buffer, offset, offset + KeyLength)
        got == ProductAttrs(buffer, offset + KeyLength, <<>>)
        first == SolanaPublicKey(first_price_account_key_bytes)
    IN IF got.raised \/ first.raised THEN [raised |-> TRUE, self |-> self]
       ELSE IF first.key = _NULL_KEY_BYTES
            THEN [raised |-> FALSE,
                  self |-> [self EXCEPT !.first_price_account_key = None,
                                        !._prices = Some(<<>>),
                                        !.attrs = got.attrs]]
            ELSE [raised |-> FALSE,
                  self |-> [self EXCEPT !.first_price_account_key = first.key,
                                        !.attrs = got.attrs]]

\* the version-2 prefix, were the offset advanced by the two keys read (64
\* bytes) and not by 96
PricePrefixV2TwoKeys(buffer, offset) ==
    IF ~CanUnpack(buffer, offset, 12) \/ ~CanUnpack(buffer, offset + 16, 16)
       \/ ~CanUnpack(buffer, offset + 32, 64)
    THEN [raised |-> TRUE, assigned |-> FALSE]
    ELSE LET derivations ==
                 [i \in 1..8 |->
                     Signed(Slice(buffer, offset + 32 + 8 * (i - 1),
                                  offset + 32 + 8 * i))]
             d == <<[k |-> TWACVALUE, v |-> derivations[TWACVALUE]],
                    [k |-> TWAPVALUE, v |-> derivations[TWAPVALUE]]>>
         IN IF ~CanUnpack(buffer, offset + 96, 64)
            THEN [raised |-> TRUE, assigned |-> TRUE, derivations |-> d]
            ELSE [raised |-> FALSE, assigned |-> TRUE, derivations |-> d,
                  price_type |-> LE(Slice(buffer, offset, offset + 4)),
                  exponent |-> Signed(Slice(buffer, offset + 4, offset + 8)),
                  num_components |-> LE(Slice(buffer, offset + 8, offset + 12)),
                  last_slot |-> LE(Slice(buffer, offset + 16, offset + 24)),
                  valid_slot |-> LE(Slice(buffer, offset + 24, offset + 32)),
                  product_account_key_bytes |->
                      Slice(buffer, offset + 96, offset + 128),
                  next_price_account_key_bytes |->
                      Slice(buffer, offset + 128, offset + 160),
                  offset |-> offset + 16 + 16 + 64 + 64]

\* the version-2 prefix of PythPriceAccount.update_from: the fields read, the
\* offset of the aggregate price info, and what was assigned to
\* self.derivations before any later failure
PricePrefixV2(buffer, offset) ==
    IF ~CanUnpack(buffer, offset, 12) \/ ~CanUnpack(buffer, offset + 16, 16)
       \/ ~CanUnpack(buffer, offset + 32, 64)
    THEN [raised |-> TRUE, assigned |-> FALSE]
    ELSE LET derivations ==
                 [i \in 1..8 |->
                     Signed(Slice(buffer, offset + 32 + 8 * (i - 1),
                                  offset + 32 + 8 * i))]
             d == <<[k |-> TWACVALUE, v |-> derivations[TWACVALUE]],
                    [k |-> TWAPVALUE, v |-> derivations[TWAPVALUE]]>>
         IN IF ~CanUnpack(buffer, offset + 96, 64)
            THEN [raised |-> TRUE, assigned |-> TRUE, derivations |-> d]
            ELSE [raised |-> FALSE, assigned |-> TRUE, derivations |-> d,
                  price_type |-> LE(Slice(buffer, offset, offset + 4)),
                  exponent |-> Signed(Slice(buffer, offset + 4, offset + 8)),
                  num_components |-> LE(Slice(buffer, offset + 8, offset + 12)),
                  last_slot |-> LE(Slice(buffer, offset + 16, offset + 24)),
                  valid_slot |-> LE(Slice(buffer, offset + 24, offset + 32)),
                  product_account_key_bytes |->
                      Slice(buffer, offset + 96, offset + 128),
                  next_price_account_key_bytes |->
                      Slice(buffer, offset + 128, offset + 160),
                  offset |-> offset + 16 + 16 + 64 + 96]

\* the version-1 prefix
PricePrefixV1(buffer, offset) ==
    IF ~CanUnpack(buffer, offset, 128) THEN [raised |-> TRUE, assigned |-> FALSE]
    ELSE [raised |-> FALSE, assigned |-> TRUE, derivations |-> <<>>,
          price_type |-> LE(Slice(buffer, offset, offset + 4)),
          exponent |-> Signed(Slice(buffer, offset + 4, offset + 8)),
          num_components |-> LE(Slice(buffer, offset + 8, offset + 12)),
          last_slot |-> LE(Slice(buffer, offset + 16, offset + 24)),
          valid_slot |-> LE(Slice(buffer, offset + 24, offset + 32)),
          product_account_key_bytes |-> Slice(buffer, offset + 32, offset + 64),
          next_price_account_key_bytes |-> Slice(buffer, offset + 64, offset + 96),
          offset |-> offset + 128]

\* the version dispatch, were a version that is neither 1 nor 2 read as
\* version 1
PricePrefixFallback(buffer, version, offset) ==
    IF version = _VERSION_2 THEN PricePrefixV2(buffer, offset)
    ELSE PricePrefixV1(buffer, offset)

\* the version dispatch of PythPriceAccount.update_from. A version that is
\* neither 1 nor 2 reaches "assert False" (or, with assertions stripped, the
\* read of the unbound local exponent): an exception either way.
PricePrefix(buffer, version, offset) ==
    IF version = _VERSION_2 THEN PricePrefixV2(buffer, offset)
    ELSE IF version = _VERSION_1 THEN PricePrefixV1(buffer, offset)
    ELSE [raised |-> TRUE, assigned |-> FALSE]

\* PythPriceAccount.update_from: self.derivations is assigned inside the
\* version branch, every other field after the whole buffer is decoded
PriceUpdateFrom(self, buffer, version, offset) ==
    LET p == PricePrefix(buffer, version, offset)
        early == IF p.assigned THEN [self EXCEPT !.derivations = p.derivations]
                 ELSE self
    IN IF p.raised THEN [raised |-> TRUE, self |-> early]
       ELSE LET aggregate_price_info ==
                    PriceInfoDeserialise(buffer, p.offset, p.exponent)
                price_components ==
                    PriceComponents(buffer, p.offset + PriceInfoLength, p.exponent)
            IN IF aggregate_price_info.raised \/ price_components.raised
                  \/ p.price_type \notin PythPriceType
               THEN [raised |-> TRUE, self |-> early]
               ELSE [raised |-> FALSE,
                     self |-> [early EXCEPT
                         !.price_type = p.price_type,
                         !.exponent = Some(p.exponent),
                         !.num_components = p.num_components,
                         !.last_slot = p.last_slot,
                         !.valid_slot = p.valid_slot,
                         !.product_account_key = p.product_account_key_bytes,
                         !.next_price_account_key =
                             _read_public_key_or_none(
                                 p.next_price_account_key_bytes, 0).key,
                         !.aggregate_price_info = Some(aggregate_price_info.info),
                         !.price_components = price_components.list]]

(***************************************************************************)
(* Decoding an RPC response into an account object                         *)
(***************************************************************************)
\* _ACCOUNT_TYPE_TO_CLASS: the account classes are named by their type tag
\* (MAPPING, PRODUCT, PRICE); the tag UNKNOWN has no class
UpdateFrom(cls, self, buffer, version, offset) ==
    CASE cls = MAPPING -> MappingUpdateFrom(self, buffer, version, offset)
      [] cls = PRODUCT -> ProductUpdateFrom(self, buffer, version, offset)
      [] cls = PRICE -> PriceUpdateFrom(self, buffer, version, offset)

\* SolanaAccount.update_with_rpc_response: the bookkeeping of the base class
SolanaAccountUpdateWithRpcResponse(self, slot, value) ==
    [self EXCEPT !.slot = Some(slot)]

\* update_with_rpc_response, were it to re-raise what update_from raises
UpdateWithRpcResponseReraise(cls, self, slot, value) ==
    LET s == SolanaAccountUpdateWithRpcResponse(self, slot, value)
        bad == [raised |-> TRUE, called |-> FALSE, logged |-> FALSE, self |-> s]
        h == _parse_header(value.data, 0)
        r == UpdateFrom(cls, s, Slice(value.data, 0, h.size), h.version,
                        _ACCOUNT_HEADER_BYTES)
    IN IF ~value.has_data THEN bad
       ELSE IF value.format # "base64" THEN bad
       ELSE IF h.raised THEN bad
       ELSE IF h.type_ # cls THEN bad
       ELSE [raised |-> r.raised, called |-> TRUE, logged |-> r.raised,
             self |-> r.self]

\* PythAccount.update_with_rpc_response on an object of class cls. value is
\* the RPC value: whether it has "data", the declared format, and the bytes
\* its base64 text stands for. called: update_from was invoked; logged: it
\* raised and the exception was logged, not re-raised.
UpdateWithRpcResponse(cls, self, slot, value) ==
    LET s == SolanaAccountUpdateWithRpcResponse(self, slot, value)
        bad == [raised |-> TRUE, called |-> FALSE, logged |-> FALSE, self |-> s]
        h == _parse_header(value.data, 0)
        r == UpdateFrom(cls, s, Slice(value.data, 0, h.size), h.version,
                        _ACCOUNT_HEADER_BYTES)
    IN IF ~value.has_data THEN bad
       ELSE IF value.format # "base64" THEN bad
       ELSE IF h.raised THEN bad
       ELSE IF h.type_ # cls THEN bad
       ELSE [raised |-> FALSE, called |-> TRUE, logged |-> r.raised, self |-> r.self]

(***************************************************************************)
(* Account data as the oracle program lays it out: what the decoders are   *)
(* given to read.                                                          *)
(***************************************************************************)
\* a natural below 2^31 as four little-endian bytes
U32(n) == <<n % 256, (n \div 256) % 256, (n \div 65536) % 256, n \div 16777216>>

\* the 32-byte key whose first byte is i; i = 0 is the null key
KeyBytes(i) == [j \in 1..KeyLength |-> IF j = 1 THEN i ELSE 0]

\* the key of the product account
ProductKey == KeyBytes(9)

HeaderBytes(magic, version, type_, size) ==
    magic \o U32(version) \o U32(type_) \o U32(size)

\* a PythPriceInfo: price (i64), confidence (u64), status, corporate action, slot
PriceInfoBytes(price, conf, status, slot) ==
    U32(price) \o Zeros(4) \o U32(conf) \o Zeros(4) \o U32(status) \o Zeros(4)
    \o U32(slot) \o Zeros(4)

\* a price component: publisher key and its two price infos
ComponentBytes(publisher, price) ==
    KeyBytes(publisher) \o PriceInfoBytes(price, 1, 1, 5) \o PriceInfoBytes(price, 1, 1, 6)

\* the body of a price account: the version-dependent prefix (exponent -2),
\* the aggregate price info (status given) and the components of the
\* publishers given
PriceBody(version, price_type, next, status, publishers) ==
    LET head == U32(price_type) \o <<254, 255, 255, 255>> \o U32(Len(publishers)) \o Zeros(4)
                \o U32(7) \o Zeros(4) \o U32(8) \o Zeros(4)
        ema == [i \in 1..64 |-> IF i % 8 = 1 THEN 10 + (i \div 8) ELSE 0]
        keys == ProductKey \o KeyBytes(next) \o KeyBytes(4)
        F[n \in 0..Len(publishers)] ==
            IF n = 0 THEN <<>>
            ELSE F[n - 1] \o ComponentBytes(publishers[n], 20 + n)
    IN head \o (IF version = _VERSION_1 THEN <<>> ELSE ema) \o keys
       \o PriceInfoBytes(100, 3, status, 8) \o F[Len(publishers)]

\* the body of a mapping account: count, unused, next key, the key slots
MappingBody(count, next, slots) ==
    LET F[n \in 0..Len(slots)] ==
            IF n = 0 THEN <<>> ELSE F[n - 1] \o KeyBytes(slots[n])
    IN U32(count) \o Zeros(4) \o KeyBytes(next) \o F[Len(slots)]

\* an attribute string: length byte and characters
AttrBytes(str) == <<Len(str)>> \o str

\* the body of a product account: first price key and attribute pairs
ProductBody(first, attrs) ==
    LET F[n \in 0..Len(attrs)] ==
            IF n = 0 THEN <<>>
            ELSE F[n - 1] \o AttrBytes(attrs[n][1]) \o AttrBytes(attrs[n][2])
    IN KeyBytes(first) \o F[Len(attrs)]

\* a whole account: header declaring the full size, then the body
AccountData(version, type_, body) ==
    HeaderBytes(_MAGIC, version, type_, _ACCOUNT_HEADER_BYTES + Len(body)) \o body

\* the RPC value of an account holding data
RpcValue(data) == [has_data |-> TRUE, format |-> "base64", data |-> data]

(***************************************************************************)
(* State                                                                   *)
(***************************************************************************)
VARIABLES
    account,   \* decoding: the account object under decode, [cls, self]
    chain,     \* on chain: the keys of the product's price list, in order
    changes,   \* on chain: the number of changes so far (the slot clock)
    product,   \* the PythProductAccount object; _prices refers into heap
    heap,      \* the PythPriceAccount objects created so far, by identity
    calls,     \* the coroutine of each caller: refresh_prices, get_prices,
               \* check_price_changes, suspended at its awaits
    last       \* the operation that made the last step, with its outcome

vars == <<account, chain, changes, product, heap, calls, last>>

(***************************************************************************)
(* Decoding: RPC responses decoded into one account object                 *)
(***************************************************************************)
Classes == {MAPPING, PRODUCT, PRICE}

\* the most key slots of a mapping account given to the decoder
MaxEntries == 3

\* the keys written into mapping key slots; 0 is the null key
SlotKeys == 0..2

SlotSeqs == UNION {[1..n -> SlotKeys] : n \in 0..MaxEntries}

Symbol == <<<<115, 121, 109>>, <<66, 84, 67>>>>

Base == <<<<98>>, <<195, 169, 255>>>>

\* a value of three bytes, of four bytes, and of a sequence cut after two
Quote == <<<<113>>, <<226, 130, 172, 240, 159, 152, 128, 226, 130>>>>

\* well-formed and ill-formed bodies of each class of account; a price
\* account may end with a component slot that is not in use, all-zero
MappingBodies ==
    {MappingBody(Len(s), IF s = <<>> THEN 0 ELSE 3, s) : s \in SlotSeqs}
    \cup {MappingBody(2, 0, <<1>>), MappingBody(1, 0, <<>>)}

ProductBodies ==
    {ProductBody(f, a) : f \in {0, 1}, a \in {<<>>, <<Symbol>>, <<Symbol, Base>>}}
    \cup {ProductBody(1, <<Symbol>>) \o <<0, 7>>,
          ProductBody(1, <<Symbol>>) \o AttrBytes(<<98>>),
          ProductBody(1, <<Symbol, Quote>>),
          ProductBody(1, <<Symbol>>) \o <<5>>,
          ProductBody(1, <<Symbol>>) \o <<1, 98, 5>>,
          ProductBody(1, <<Symbol>>) \o <<1, 98, 0>>,
          ProductBody(1, <<>>) \o <<5>>,
          Zeros(8)}

PriceBodies ==
    {PriceBody(v, t, n, 1, p) :
        v \in _SUPPORTED_VERSIONS, t \in {1, 2}, n \in {0, 2}, p \in {<<>>, <<5>>}}
    \cup {PriceBody(v, 4, 0, 1, <<>>) : v \in _SUPPORTED_VERSIONS}
    \cup {PriceBody(v, 1, 0, 9, <<>>) : v \in _SUPPORTED_VERSIONS}
    \cup {SubSeq(PriceBody(v, 1, 2, 1, <<5>>), 1, n) :
            v \in _SUPPORTED_VERSIONS, n \in {100, 150, 200, 250}}
    \cup {PriceBody(v, 1, 0, 1, p) \o Zeros(PriceComponentLength) :
            v \in _SUPPORTED_VERSIONS, p \in {<<>>, <<5>>}}

Bodies ==
    [cls \in Classes |->
        CASE cls = MAPPING -> MappingBodies
          [] cls = PRODUCT -> ProductBodies
          [] cls = PRICE -> PriceBodies]

\* one well-formed body of each class, for the ill-formed headers
SampleBody ==
    [cls \in Classes |->
        CASE cls = MAPPING -> MappingBody(2, 3, <<1, 2>>)
          [] cls = PRODUCT -> ProductBody(1, <<Symbol>>)
          [] cls = PRICE -> PriceBody(_VERSION_2, 1, 2, 1, <<5>>)]

BadMagic == <<212, 195, 178, 160>>

\* buffers whose header is ill-formed in one way, or declares another type,
\* or declares a size that cuts the body
HeaderCases ==
    [cls \in Classes |->
        LET body == SampleBody[cls]
            full == _ACCOUNT_HEADER_BYTES + Len(body)
        IN {HeaderBytes(BadMagic, 2, cls, full) \o body}
           \cup {HeaderBytes(_MAGIC, v, cls, full) \o body : v \in {0, 3}}
           \cup {HeaderBytes(_MAGIC, 2, t, full) \o body : t \in (0..4) \ {cls}}
           \cup {HeaderBytes(_MAGIC, 2, cls, z) \o body :
                    z \in {0, 20, full - 7, full - 1, full + 1}}
           \cup {SubSeq(HeaderBytes(_MAGIC, 2, cls, 0), 1, n) : n \in {0, 12, 15}}
           \cup {HeaderBytes(BadMagic, 3, cls, full + 1) \o body}]

\* the RPC values given to an object of class cls
Responses ==
    [cls \in Classes |->
        {RpcValue(AccountData(v, cls, b)) :
            v \in IF cls = PRICE THEN _SUPPORTED_VERSIONS ELSE {_VERSION_2},
            b \in Bodies[cls]}
        \cup {RpcValue(AccountData(_VERSION_1, cls, SampleBody[cls]))}
        \cup {RpcValue(d) : d \in HeaderCases[cls]}
        \cup {[has_data |-> FALSE, format |-> "base64", data |-> <<>>],
              [has_data |-> TRUE, format |-> "base58",
               data |-> AccountData(2, cls, SampleBody[cls])]}]

\* the buffers given to update_from when it is called directly
DirectBuffers ==
    [cls \in Classes |->
        {AccountData(_VERSION_2, cls, SampleBody[cls])}
        \cup IF cls = PRICE
             THEN {AccountData(v, cls, PriceBody(v, t, 0, 1, <<>>)) :
                      v \in _SUPPORTED_VERSIONS, t \in {1, 2}}
             ELSE {}]

\* the state of the chain operations before any of them has run
InitChainState ==
    /\ chain = <<>>
    /\ changes = 0
    /\ product = NewProduct(ProductKey)
    /\ heap = <<>>
    /\ calls = <<>>

InitDecode ==
    /\ \E cls \in Classes : account = [cls |-> cls, self |->
            CASE cls = MAPPING -> NewMapping(KeyBytes(8))
              [] cls = PRODUCT -> NewProduct(ProductKey)
              [] cls = PRICE -> NewPrice(KeyBytes(1))]
    /\ last = [op |-> "init"]
    /\ InitChainState

\* account.update_with_rpc_response(slot, value)
DecodeResponse ==
    \E value \in Responses[account.cls] :
        LET r == UpdateWithRpcResponse(account.cls, account.self, 1, value)
        IN /\ account' = [account EXCEPT !.self = r.self]
           /\ last' = [op |-> "update_with_rpc_response", value |-> value,
                       raised |-> r.raised, called |-> r.called,
                       logged |-> r.logged]
           /\ UNCHANGED <<chain, changes, product, heap, calls>>

\* account.update_from(buffer, version=version, offset=16) called directly,
\* with any version number
DirectUpdateFrom ==
    \E version \in 0..3, buffer \in DirectBuffers[account.cls] :
        LET r == UpdateFrom(account.cls, account.self, buffer, version,
                            _ACCOUNT_HEADER_BYTES)
        IN /\ account' = [account EXCEPT !.self = r.self]
           /\ last' = [op |-> "update_from", version |-> version,
                       buffer |-> buffer, raised |-> r.raised]
           /\ UNCHANGED <<chain, changes, product, heap, calls>>

NextDecode == DecodeResponse \/ DirectUpdateFrom

SpecDecode == InitDecode /\ [][NextDecode]_vars

(***************************************************************************)
(* Properties of decoding                                                  *)
(***************************************************************************)
\* the fields a decoder assigns: all but the slot, which the base class
\* takes from the RPC response, not from the buffer
RecordFields(self) == [f \in DOMAIN self \ {"slot"} |-> self[f]]

\* the four conditions under which the header of a buffer is rejected
ShortBuffer(data) == Len(data) < 16

DeclaredSize(data) == LE(SubSeq(data, 13, 16))

DeclaredVersion(data) == LE(SubSeq(data, 5, 8))

DeclaredType(data) == LE(SubSeq(data, 9, 12))

BadHeader(data) ==
    \/ ShortBuffer(data)
    \/ DeclaredSize(data) > Len(data)
    \/ SubSeq(data, 1, 4) # <<212, 195, 178, 161>>
    \/ DeclaredVersion(data) \notin {1, 2}

ResponseDecoded == last.op = "update_with_rpc_response"

\* the response decoded last held base64 data
GaveData == ResponseDecoded /\ last.value.has_data /\ last.value.format = "base64"

\* C3: header gate. Decoding a response whose buffer is shorter than the
\* 16-byte header, declares a size larger than the buffer, has a magic other
\* than 0xA1B2C3D4 or a version outside {1, 2} raises, update_from is not
\* called, and no field a decoder assigns is changed.
C3_HeaderGate ==
    [][(last'.op = "update_with_rpc_response" /\ last'.value.has_data
        /\ BadHeader(last'.value.data))
       => /\ last'.raised
          /\ ~last'.called
          /\ RecordFields(account'.self) = RecordFields(account.self)]_vars

\* C3 witness: a response with a bad magic given to a price account that an
\* earlier response had decoded; it raised and the fields are still there
C3_Witness ==
    /\ ResponseDecoded /\ last.value.has_data
    /\ ~ShortBuffer(last.value.data)
    /\ SubSeq(last.value.data, 1, 4) # <<212, 195, 178, 161>>
    /\ last.raised /\ ~last.called
    /\ account.cls = PRICE /\ account.self.price_type = 2
    /\ account.self.next_price_account_key = KeyBytes(2)

\* C4: version dispatch fails closed. PythPriceAccount.update_from called
\* with a version outside {1, 2} raises and assigns no field of the record.
C4_VersionFailsClosed ==
    [][(last'.op = "update_from" /\ account.cls = PRICE
        /\ last'.version \notin {1, 2})
       => /\ last'.raised
          /\ account'.self = account.self]_vars

\* C4 witness: version 3 given to the price decoder with a buffer that is
\* well-formed under the version-1 layout; it raised, the account is as
\* constructed
C4_Witness ==
    /\ last.op = "update_from" /\ account.cls = PRICE
    /\ last.version = 3 /\ last.raised
    /\ DeclaredVersion(last.buffer) = 1
    /\ account.self = NewPrice(KeyBytes(1))

\* C5 as claimed: a bad header, a type tag of another class and a body the
\* record decoder rejects each make update_with_rpc_response raise.
C5_AllFormatErrorsRaise ==
    GaveData
    => ((BadHeader(last.value.data) \/ DeclaredType(last.value.data) # account.cls
         \/ last.logged)
        => last.raised)

\* C5 as amended: a bad header and a type tag of another class make the call
\* raise; a body the record decoder rejects does not: the exception is
\* logged and the call returns normally.
C5_HeaderAndTypeErrorsRaise ==
    GaveData
    => /\ (BadHeader(last.value.data) \/ DeclaredType(last.value.data) # account.cls)
            => (last.raised /\ ~last.called)
       /\ last.logged => (last.called /\ ~last.raised)

\* C5 witness: a well-formed header of the right type before a truncated
\* body; update_from raised, the call returned normally
C5_Witness ==
    /\ GaveData
    /\ ~BadHeader(last.value.data)
    /\ DeclaredType(last.value.data) = account.cls
    /\ last.logged /\ ~last.raised

\* the key slots of a mapping account's buffer, as many as it declares
DeclaredCount(data) == LE(SubSeq(data, 17, 20))

KeySlots(data) ==
    [i \in 1..DeclaredCount(data) |-> SubSeq(data, 57 + 32 * (i - 1), 56 + 32 * i)]

NonNull(k) == k # Zeros(32)

RECURSIVE Unique(_)
\* a sequence without the later occurrences of its elements
Unique(s) ==
    IF s = <<>> THEN <<>>
    ELSE LET init == Unique(SubSeq(s, 1, Len(s) - 1))
             x == s[Len(s)]
         IN IF \E i \in 1..Len(init) : init[i] = x THEN init ELSE Append(init, x)

\* a mapping response with a good header whose declared size holds all the
\* key slots it declares
HoldsDeclaredSlots ==
    /\ GaveData /\ account.cls = MAPPING
    /\ ~BadHeader(last.value.data)
    /\ DeclaredType(last.value.data) = MAPPING
    /\ DeclaredSize(last.value.data) >= 56 + 32 * DeclaredCount(last.value.data)

\* C7 as claimed: the decoded entries are the key slots without the all-zero
\* keys and without the repeated keys, in the order of the slots.
C7_EntriesNonNullUnique ==
    HoldsDeclaredSlots
    => /\ ~last.raised /\ ~last.logged
       /\ account.self.entries = Unique(SelectSeq(KeySlots(last.value.data), NonNull))

\* C7 as amended: the decoded entries are the key slots without the all-zero
\* keys, in the order of the slots; a repeated key is kept as often as it
\* occurs, and dropping a null key is no error.
C7_EntriesNonNull ==
    HoldsDeclaredSlots
    => /\ ~last.raised /\ ~last.logged
       /\ account.self.entries = SelectSeq(KeySlots(last.value.data), NonNull)

\* C7 witness: three slots, one of them all-zero, give two entries in the
\* order of the slots
C7_Witness ==
    /\ HoldsDeclaredSlots
    /\ DeclaredCount(last.value.data) = 3
    /\ account.self.entries = <<KeyBytes(2), KeyBytes(1)>>

\* the PythPriceInfo laid out at byte o of data, bytes counted from 0
InfoAt(data, o, exponent) ==
    [raw_price |-> Signed(SubSeq(data, o + 1, o + 8)),
     raw_confidence_interval |-> LE(SubSeq(data, o + 9, o + 16)),
     price_status |-> LE(SubSeq(data, o + 17, o + 20)),
     slot |-> LE(SubSeq(data, o + 25, o + 32)),
     exponent |-> exponent]

\* a price response with a good header was decoded and update_from returned
\* normally
PriceDecoded ==
    /\ GaveData /\ account.cls = PRICE
    /\ last.called /\ ~last.logged

\* the price account decoded last holds the aggregate price info laid out
\* prefix bytes after the header and, as its first component, the component
\* laid out after that price info: none when the declared size ends there or
\* the publisher key there is all-zero
SuffixAfter(prefix) ==
    LET data == last.value.data
        self == account.self
        exponent == Val(self.exponent)
        o == _ACCOUNT_HEADER_BYTES + prefix
        c == o + PriceInfoLength
    IN /\ self.aggregate_price_info = Some(InfoAt(data, o, exponent))
       /\ IF c < DeclaredSize(data) /\ SubSeq(data, c + 1, c + 32) # Zeros(32)
          THEN /\ self.price_components # <<>>
               /\ self.price_components[1] =
                    [publisher_key |-> SubSeq(data, c + 1, c + 32),
                     last_aggregate_price_info |-> InfoAt(data, c + 32, exponent),
                     latest_price_info |-> InfoAt(data, c + 64, exponent),
                     exponent |-> exponent]
          ELSE self.price_components = <<>>

\* the fields of the prefix that both layouts hold at the same place, and the
\* next-price key keyAt bytes after the header
PrefixFields(keyAt) ==
    LET data == last.value.data
        self == account.self
        key == SubSeq(data, 17 + keyAt, 48 + keyAt)
    IN /\ self.price_type = LE(SubSeq(data, 17, 20))
       /\ self.exponent = Some(Signed(SubSeq(data, 21, 24)))
       /\ self.num_components = LE(SubSeq(data, 25, 28))
       /\ self.last_slot = LE(SubSeq(data, 33, 40))
       /\ self.valid_slot = LE(SubSeq(data, 41, 48))
       /\ self.next_price_account_key = IF key = Zeros(32) THEN None ELSE key

\* C11 as claimed: the version-2 prefix is 160 bytes after the header (the
\* aggregate price info is decoded 160 bytes and the first component 192 bytes
\* after the header), the version-1 prefix is 128 bytes.
C11_V2Prefix160 ==
    PriceDecoded
    => IF DeclaredVersion(last.value.data) = 2
       THEN PrefixFields(128) /\ SuffixAfter(160)
       ELSE PrefixFields(64) /\ SuffixAfter(128)

\* C11 as amended: the version-2 prefix is 192 bytes after the header: 16 for
\* type, exponent, count and unused, 16 for the two slots, 64 for the eight
\* accumulators, 64 for product key and next-price key, and 32 more that are
\* skipped unread; the aggregate price info is decoded 192 bytes and the
\* first component 224 bytes after the header. The version-1 prefix is 128
\* bytes.
C11_V2Prefix192 ==
    PriceDecoded
    => IF DeclaredVersion(last.value.data) = 2
       THEN PrefixFields(128) /\ SuffixAfter(192)
       ELSE PrefixFields(64) /\ SuffixAfter(128)

\* C11 witness: a version-2 account with one publisher was decoded; the 32
\* bytes that follow the next-price key hold the key of the aggregator, and
\* the aggregate price and the publisher decoded are those laid out after it
C11_Witness ==
    /\ PriceDecoded
    /\ DeclaredVersion(last.value.data) = 2
    /\ SubSeq(last.value.data, 177, 208) = KeyBytes(4)
    /\ Val(account.self.aggregate_price_info).raw_price = 100
    /\ Len(account.self.price_components) = 1
    /\ account.self.price_components[1].publisher_key = KeyBytes(5)

(***************************************************************************)
(* The price chain on chain, and what a fetch returns                      *)
(***************************************************************************)
\* the price accounts that exist; account k has the key KeyBytes(k)
KeyIds == {1, 2, 3}

\* the price type of each account: the first and the third share a type
TypeOf(k) == <<1, 2, 1>>[k]

\* the first account is laid out in version 1, the others in version 2
VersionOf(k) == IF k = 1 THEN _VERSION_1 ELSE _VERSION_2

\* the lists the product's price accounts can form: the sequences of distinct
\* keys
Chains ==
    UNION {{ch \in [1..n -> KeyIds] : \A i, j \in 1..n : ch[i] = ch[j] => i = j} :
            n \in 0..Cardinality(KeyIds)}

\* the position of key k in the list ch, 0 when it is not in it
Pos(ch, k) == IF \E i \in 1..Len(ch) : ch[i] = k
              THEN CHOOSE i \in 1..Len(ch) : ch[i] = k ELSE 0

\* the key that follows k in ch; 0, the null key, after the last
NextOf(ch, k) == IF Pos(ch, k) < Len(ch) THEN ch[Pos(ch, k) + 1] ELSE 0

\* getAccountInfo for a key: the value is null for an account that does not
\* exist, which is any price account outside the list
GetAccountInfo(ch, key) ==
    IF key = ProductKey
    THEN [null |-> FALSE,
          value |-> RpcValue(AccountData(_VERSION_2, PRODUCT,
                        ProductBody(IF ch = <<>> THEN 0 ELSE ch[1], <<Symbol>>)))]
    ELSE IF Pos(ch, key[1]) = 0 THEN [null |-> TRUE]
    ELSE [null |-> FALSE,
          value |-> RpcValue(AccountData(VersionOf(key[1]), PRICE,
                        PriceBody(VersionOf(key[1]), TypeOf(key[1]),
                                  NextOf(ch, key[1]), 1, <<>>)))]

\* SolanaAccount.update once the response is there: a null value is logged,
\* an exception of update_with_rpc_response is logged; the object as left
SolanaAccountUpdate(cls, self, slot, resp) ==
    IF resp.null THEN self
    ELSE UpdateWithRpcResponse(cls, self, slot, resp.value).self

(***************************************************************************)
(* PythProductAccount: the price chain operations                          *)
(***************************************************************************)
\* the most PythPriceAccount objects created in a behaviour
MaxObjs == 2

\* the most changes of the list on chain in a behaviour
MaxChanges == 1

\* a price-type dict of account objects (heap indices) as a function
PriceMap(d) == [t \in DictKeys(d) |-> DictGet(d, t)]

\* the locals of a coroutine that is not running
NoLocals ==
    [pc |-> "idle", op |-> "none", update_accounts |-> FALSE, cur |-> 0,
     prices |-> <<>>, old_prices |-> <<>>, added_prices |-> <<>>,
     walked |-> <<>>, first |-> None, start |-> 0, known |-> <<>>]

\* what a call returned, with what it walked: no call has returned
NoResult ==
    [op |-> "none", update_accounts |-> FALSE, prices |-> <<>>, added |-> <<>>,
     removed |-> <<>>, walked |-> <<>>, first |-> None, start |-> 0,
     known |-> <<>>]

\* refresh_prices assigning self._prices, were it to do so after every hop
StoreEveryHop(self, prices, finished) ==
    [self EXCEPT !._prices = Some(prices)]

\* refresh_prices, check_price_changes: self._prices is assigned once, after
\* the loop
StoreOnCompletion(self, prices, finished) ==
    IF finished THEN [self EXCEPT !._prices = Some(prices)] ELSE self

\* prices[price.price_type] = price, were the first account of a type kept
SetPriceFirstWins(prices, price, id) ==
    IF DictHas(prices, price.price_type) THEN prices
    ELSE DictSet(prices, price.price_type, id)

\* prices[price.price_type] = price, for the object at heap index id
SetPrice(prices, price, id) == DictSet(prices, price.price_type, id)

\* the loop of check_price_changes, were it to fetch every account anew
CheckWalkNoReuse(key, old_prices, new_prices, h) ==
    [suspend |-> key # None, key |-> key, old |-> old_prices, new |-> new_prices]

\* the loop of check_price_changes up to its next await: accounts known
\* before are popped from old_prices and put into new_prices without a
\* fetch; the loop suspends at the first key that is not known, or ends
RECURSIVE CheckWalk(_, _, _, _)
CheckWalk(key, old_prices, new_prices, h) ==
    IF key = None
    THEN [suspend |-> FALSE, key |-> None, old |-> old_prices, new |-> new_prices]
    ELSE IF DictHas(old_prices, key)
    THEN LET id == DictGet(old_prices, key)
         IN CheckWalk(h[id].next_price_account_key, DictDel(old_prices, key),
                      SetPrice(new_prices, h[id], id), h)
    ELSE [suspend |-> TRUE, key |-> key, old |-> old_prices, new |-> new_prices]

\* the step of the loop of refresh_prices after a fetched account: suspend
\* at the fetch of the next key, or end
RefreshWalk(key, prices) ==
    [suspend |-> key # None, key |-> key, old |-> <<>>, new |-> prices]

\* dict((price.key, price) for price in self._prices.values())
OldPrices(prices, h) ==
    LET F[n \in 0..Len(prices)] ==
            IF n = 0 THEN <<>>
            ELSE DictSet(F[n - 1], h[prices[n].v].key, prices[n].v)
    IN F[Len(prices)]

\* SolanaClient.update_accounts once the response is there: every account
\* whose value is not null is updated in place
UpdateAccounts(h, ids, ch, slot) ==
    [i \in 1..Len(h) |->
        IF i \in ids
        THEN SolanaAccountUpdate(PRICE, h[i], slot, GetAccountInfo(ch, h[i].key))
        ELSE h[i]]

\* use_price_accounts without its check at the end of the list
RECURSIVE UsePriceAccountsNoEnd(_, _, _, _)
UsePriceAccountsNoEnd(self, new_prices, h, st) ==
    LET prices == IF st = <<>> THEN <<>> ELSE st[1]
        expected_key == IF st = <<>> THEN self.first_price_account_key ELSE st[2]
    IN IF new_prices = <<>>
       THEN [raised |-> FALSE, self |-> [self EXCEPT !._prices = Some(prices)]]
       ELSE LET price == h[Head(new_prices)]
            IN IF price.key # expected_key THEN [raised |-> TRUE, self |-> self]
               ELSE UsePriceAccountsNoEnd(self, Tail(new_prices), h,
                        <<SetPrice(prices, price, Head(new_prices)),
                          price.next_price_account_key>>)

\* PythProductAccount.use_price_accounts on the accounts at the heap indices
\* new_prices; st is empty at the call and holds the locals (prices,
\* expected_key) inside the loop
RECURSIVE UsePriceAccounts(_, _, _, _)
UsePriceAccounts(self, new_prices, h, st) ==
    LET prices == IF st = <<>> THEN <<>> ELSE st[1]
        expected_key == IF st = <<>> THEN self.first_price_account_key ELSE st[2]
    IN IF new_prices = <<>>
       THEN IF expected_key # None THEN [raised |-> TRUE, self |-> self]
            ELSE [raised |-> FALSE, self |-> [self EXCEPT !._prices = Some(prices)]]
       ELSE LET price == h[Head(new_prices)]
            IN IF price.key # expected_key THEN [raised |-> TRUE, self |-> self]
               ELSE UsePriceAccounts(self, Tail(new_prices), h,
                        <<SetPrice(prices, price, Head(new_prices)),
                          price.next_price_account_key>>)

(***************************************************************************)
(* Actions                                                                 *)
(***************************************************************************)
\* the slot of the context of every response
Slot == 1

Did(op, c, done, raised, arg) ==
    [op |-> op, c |-> c, done |-> done, raised |-> raised, arg |-> arg]

\* after construction: the product object, no price account object, every
\* caller idle; the list on chain is any list
Start(callers) ==
    /\ account = [cls |-> PRODUCT, self |-> NewProduct(ProductKey)]
    /\ chain \in Chains
    /\ changes = 0
    /\ product = NewProduct(ProductKey)
    /\ heap = <<>>
    /\ calls = [c \in callers |-> [run |-> NoLocals, ret |-> NoResult]]
    /\ last = Did("init", 0, FALSE, FALSE, <<>>)

\* the lists one change makes of the list ch: one key is put in, taken out
\* or replaced by another
Edits(ch) ==
    {e \in Chains \ {ch} :
        \E i \in 1..(Len(ch) + 1) :
            \/ /\ Len(e) = Len(ch) + 1
               /\ ch = SubSeq(e, 1, i - 1) \o SubSeq(e, i + 1, Len(e))
            \/ /\ Len(e) = Len(ch) - 1
               /\ e = SubSeq(ch, 1, i - 1) \o SubSeq(ch, i + 1, Len(ch))
            \/ /\ Len(e) = Len(ch) /\ i <= Len(ch)
               /\ \A j \in 1..Len(ch) : j # i => e[j] = ch[j]}

\* the oracle program changes the product's list of price accounts
ChainChange ==
    /\ changes < MaxChanges
    /\ \E ch \in Edits(chain) : chain' = ch
    /\ changes' = changes + 1
    /\ last' = Did("chain_change", 0, FALSE, FALSE, <<>>)
    /\ UNCHANGED <<account, product, heap, calls>>

\* product.update(): the product account is fetched and decoded into the
\* object
ProductUpdate ==
    /\ product' = SolanaAccountUpdate(PRODUCT, product, Slot,
                                      GetAccountInfo(chain, ProductKey))
    /\ last' = Did("product_update", 0, FALSE, FALSE, <<>>)
    /\ UNCHANGED <<account, chain, changes, heap, calls>>

CanCall(c) == calls[c].run.pc \in {"idle", "done", "raised"}

\* the account objects there were after construction: those of the call of
\* refresh_prices, kept as call 0, that loaded the price set before the
\* behaviour began; none where there was no such call
Preloaded == IF 0 \in DOMAIN calls THEN Len(calls[0].ret.walked) ELSE 0

\* a coroutine goes on after a step of its loop: it creates the account of
\* the next key and suspends at its fetch, or it ends, assigns self._prices
\* and returns
Advance(c, op, prod, h, w, r, name) ==
    IF w.suspend
    THEN /\ Len(h) < MaxObjs + Preloaded
         /\ heap' = Append(h, NewPrice(w.key))
         /\ product' = StoreOnCompletion(prod, w.new, FALSE)
         /\ calls' = [calls EXCEPT ![c].run =
                [r EXCEPT !.pc = "fetch", !.op = op, !.cur = Len(h) + 1,
                          !.prices = w.new, !.old_prices = w.old],
                                   ![c].ret = NoResult]
         /\ last' = Did(name, c, FALSE, FALSE, <<>>)
    ELSE /\ heap' = h
         /\ product' = StoreOnCompletion(prod, w.new, TRUE)
         /\ calls' = [calls EXCEPT ![c] =
                [run |-> [NoLocals EXCEPT !.pc = "done"],
                 ret |-> [op |-> op, update_accounts |-> r.update_accounts,
                          prices |-> w.new,
                          added |-> CASE op = "check" -> r.added_prices
                                      [] op = "check_unloaded" -> DictValues(w.new)
                                      [] OTHER -> <<>>,
                          removed |-> DictValues(w.old),
                          walked |-> r.walked, first |-> r.first,
                          start |-> r.start, known |-> r.known]]]
         /\ last' = Did(name, c, TRUE, FALSE, <<>>)

\* refresh_prices, were it to build on the dict it has cached
StartWalkInPlace(c, op, name) ==
    /\ CanCall(c)
    /\ Advance(c, op, product, heap,
               RefreshWalk(product.first_price_account_key,
                           IF product._prices = None THEN <<>>
                           ELSE Val(product._prices)),
               [NoLocals EXCEPT !.first = product.first_price_account_key,
                                !.start = changes],
               name)
    /\ UNCHANGED <<account, chain, changes>>

\* the start of refresh_prices, up to its first await
StartWalk(c, op, name) ==
    /\ CanCall(c)
    /\ Advance(c, op, product, heap,
               RefreshWalk(product.first_price_account_key, <<>>),
               [NoLocals EXCEPT !.first = product.first_price_account_key,
                                !.start = changes],
               name)
    /\ UNCHANGED <<account, chain, changes>>

\* await product.refresh_prices()
RefreshStart(c) == StartWalk(c, "refresh", "refresh_prices")

\* await product.get_prices(): the cached dict if there is one
GetPrices(c) ==
    IF product._prices # None
    THEN /\ CanCall(c)
         /\ calls' = [calls EXCEPT ![c] =
                [run |-> [NoLocals EXCEPT !.pc = "done"],
                 ret |-> [NoResult EXCEPT !.op = "get_cached",
                                          !.prices = Val(product._prices),
                                          !.start = changes]]]
         /\ last' = Did("get_prices", c, TRUE, FALSE, <<>>)
         /\ UNCHANGED <<account, chain, changes, product, heap>>
    ELSE StartWalk(c, "get", "get_prices")

\* the fetch of the account at cur has returned: price.update() decodes it,
\* the loop of refresh_prices goes on
RefreshFetched(c) ==
    LET r == calls[c].run
        price == SolanaAccountUpdate(PRICE, heap[r.cur], Slot,
                                     GetAccountInfo(chain, heap[r.cur].key))
    IN /\ r.pc = "fetch" /\ r.op # "check"
       /\ Advance(c, r.op, product, [heap EXCEPT ![r.cur] = price],
                  RefreshWalk(price.next_price_account_key,
                              SetPrice(r.prices, price, r.cur)),
                  [r EXCEPT !.walked = Append(r.walked, r.cur)],
                  "fetched")
       /\ UNCHANGED <<account, chain, changes>>

\* await product.check_price_changes(update_accounts), up to its first await
CheckStart(c) ==
    IF product._prices = None
    THEN StartWalk(c, "check_unloaded", "check_price_changes")
    ELSE \E update_accounts \in BOOLEAN :
            LET old_prices == OldPrices(Val(product._prices), heap)
                r == [NoLocals EXCEPT !.old_prices = old_prices,
                                      !.update_accounts = update_accounts,
                                      !.known = DictValues(old_prices),
                                      !.first = product.first_price_account_key,
                                      !.start = changes]
            IN /\ CanCall(c)
               /\ IF update_accounts
                  THEN /\ calls' = [calls EXCEPT ![c] =
                                [run |-> [r EXCEPT !.pc = "batch", !.op = "check"],
                                 ret |-> NoResult]]
                       /\ last' = Did("check_price_changes", c, FALSE, FALSE, <<>>)
                       /\ UNCHANGED <<product, heap>>
                  ELSE Advance(c, "check", product, heap,
                               CheckWalk(product.first_price_account_key,
                                         old_prices, <<>>, heap),
                               r, "check_price_changes")
               /\ UNCHANGED <<account, chain, changes>>

\* the batch fetch of update_accounts has returned: the product and the
\* accounts known before are decoded in place, then the loop runs
CheckBatch(c) ==
    LET r == calls[c].run
        prod == SolanaAccountUpdate(PRODUCT, product, Slot,
                                    GetAccountInfo(chain, ProductKey))
        h == UpdateAccounts(heap, {r.known[i] : i \in 1..Len(r.known)}, chain, Slot)
    IN /\ r.pc = "batch"
       /\ Advance(c, "check", prod, h,
                  CheckWalk(prod.first_price_account_key, r.old_prices, <<>>, h),
                  [r EXCEPT !.first = prod.first_price_account_key],
                  "batch_fetched")
       /\ UNCHANGED <<account, chain, changes>>

\* the fetch of an account that was not known has returned: it is decoded
\* and added, the loop of check_price_changes goes on
CheckFetched(c) ==
    LET r == calls[c].run
        acc == SolanaAccountUpdate(PRICE, heap[r.cur], Slot,
                                   GetAccountInfo(chain, heap[r.cur].key))
        h == [heap EXCEPT ![r.cur] = acc]
    IN /\ r.pc = "fetch" /\ r.op = "check"
       /\ Advance(c, "check", product, h,
                  CheckWalk(acc.next_price_account_key, r.old_prices,
                            SetPrice(r.prices, acc, r.cur), h),
                  [r EXCEPT !.added_prices = Append(r.added_prices, r.cur),
                            !.walked = Append(r.walked, r.cur)],
                  "fetched")
       /\ UNCHANGED <<account, chain, changes>>

\* the fetch a coroutine awaits fails, or the task is cancelled there: the
\* exception leaves the coroutine
Fail(c) ==
    LET r == calls[c].run
    IN /\ r.pc \in {"fetch", "batch"}
       /\ calls' = [calls EXCEPT ![c].run =
                        [NoLocals EXCEPT !.pc = "raised", !.op = r.op]]
       /\ last' = Did("fail", c, FALSE, TRUE, <<r.op, r.pc>>)
       /\ UNCHANGED <<account, chain, changes, product, heap>>

\* the most accounts in a list given to use_price_accounts
MaxList == 2

Lists == UNION {[1..n -> 1..Len(heap)] : n \in 0..MaxList}

\* product.use_price_accounts(new_prices), called once on the objects drawn
Use ==
    \E new_prices \in Lists :
        LET u == UsePriceAccounts(product, new_prices, heap, <<>>)
        IN /\ last.op = "init"
           /\ product' = u.self
           /\ last' = Did("use_price_accounts", 0, ~u.raised, u.raised, new_prices)
           /\ UNCHANGED <<account, chain, changes, heap, calls>>

\* one task calls the operations of the product, one after the other, while
\* the list changes on chain and the product object is updated
Init == Start({1})

Next ==
    \/ ChainChange
    \/ ProductUpdate
    \/ \E c \in {1} :
        \/ RefreshStart(c)
        \/ GetPrices(c)
        \/ RefreshFetched(c)
        \/ CheckStart(c)
        \/ CheckBatch(c)
        \/ CheckFetched(c)
        \/ Fail(c)

Spec == Init /\ [][Next]_vars

\* two tasks call refresh_prices on the same product; their calls interleave
\* at the fetches
InitConcurrent == Start({1, 2})

NextConcurrent ==
    \/ ChainChange
    \/ ProductUpdate
    \/ \E c \in {1, 2} :
        \/ RefreshStart(c)
        \/ RefreshFetched(c)

SpecConcurrent == InitConcurrent /\ [][NextConcurrent]_vars

\* a price account object into which a fetch was decoded when the account k
\* was followed in the list by n (0: by none)
PriceObject(k, n) ==
    SolanaAccountUpdate(PRICE, NewPrice(KeyBytes(k)), Slot,
                        GetAccountInfo(IF n = 0 THEN <<k>> ELSE <<k, n>>, KeyBytes(k)))

\* the price account objects a caller can hold: decoded at some time, or
\* never
PriceObjects ==
    UNION {{PriceObject(k, n) : n \in ({0} \cup KeyIds) \ {k}} : k \in KeyIds}
        \cup {NewPrice(KeyBytes(k)) : k \in KeyIds}

\* the product object: as constructed, or decoded at some time, when the
\* list was empty or began with k
ProductObjects ==
    {NewProduct(ProductKey)}
        \cup {SolanaAccountUpdate(PRODUCT, NewProduct(ProductKey), Slot,
                                  GetAccountInfo(ch, ProductKey)) :
                ch \in {<<>>} \cup {<<k>> : k \in KeyIds}}

\* use_price_accounts is given a list of the account objects the caller
\* holds; the price set of the product is as its decoding left it, or holds
\* the first of the objects
InitUse ==
    /\ account = [cls |-> PRODUCT, self |-> NewProduct(ProductKey)]
    /\ chain = <<>>
    /\ changes = 0
    /\ heap \in [1..MaxObjs -> PriceObjects]
    /\ \E p \in ProductObjects, loaded \in BOOLEAN :
            product = IF loaded
                      THEN [p EXCEPT !._prices =
                                Some(<<[k |-> heap[1].price_type, v |-> 1]>>)]
                      ELSE p
    /\ calls = <<>>
    /\ last = Did("init", 0, FALSE, FALSE, <<>>)

NextUse == Use

SpecUse == InitUse /\ [][NextUse]_vars

(***************************************************************************)
(* check_price_changes called twice, the second call after the first has   *)
(* returned, while the list on chain stays as it is. Each call suspends at *)
(* its awaits, where product.update() of another task may run.             *)
(***************************************************************************)
\* the one element of a set of one element: a value computed once and named,
\* as a local variable of the code is
Only(S) == CHOOSE x \in S : TRUE

\* the loop of refresh_prices run to its end on the list ch: each account is
\* created, fetched and decoded, and put into prices under its price type
RECURSIVE RefreshLoop(_, _, _, _)
RefreshLoop(key, prices, h, ch) ==
    IF ~RefreshWalk(key, prices).suspend THEN [prices |-> prices, heap |-> h]
    ELSE Only({RefreshLoop(price.next_price_account_key,
                           SetPrice(prices, price, Len(h) + 1),
                           Append(h, price), ch) :
                price \in {SolanaAccountUpdate(PRICE, NewPrice(key), Slot,
                                               GetAccountInfo(ch, key))}})

\* refresh_prices from its call to its return
RefreshPrices(self, h, ch) ==
    Only({[self |-> StoreOnCompletion(self, r.prices, TRUE), heap |-> r.heap,
           prices |-> r.prices] :
            r \in {RefreshLoop(self.first_price_account_key, <<>>, h, ch)}})

\* the product holds a price set that a call of refresh_prices, call 0,
\* loaded and returned when the list on chain was some list, the same as now
\* or another; the accounts that call created are the account objects there
\* are. The two calls of check_price_changes, 1 and 2, are yet to be made.
InitStable ==
    /\ account = [cls |-> PRODUCT, self |-> NewProduct(ProductKey)]
    /\ chain \in Chains
    /\ changes = 0
    /\ \E before \in Chains :
        \E p \in {SolanaAccountUpdate(PRODUCT, NewProduct(ProductKey), Slot,
                                       GetAccountInfo(before, ProductKey))} :
            \E r \in {RefreshPrices(p, <<>>, before)} :
               /\ product = r.self
               /\ heap = r.heap
               /\ calls = [c \in {0, 1, 2} |->
                    IF c = 0
                    THEN [run |-> [NoLocals EXCEPT !.pc = "done"],
                          ret |-> [NoResult EXCEPT
                                    !.op = "refresh", !.prices = r.prices,
                                    !.walked = [i \in 1..Len(r.heap) |-> i],
                                    !.first = p.first_price_account_key]]
                    ELSE [run |-> NoLocals, ret |-> NoResult]]
    /\ last = Did("init", 0, FALSE, FALSE, <<>>)

\* await product.check_price_changes(update_accounts) of call c, up to its
\* first await: the call before it has returned
CheckAfter(c) ==
    /\ calls[c].run.pc = "idle"
    /\ calls[c - 1].run.pc = "done"
    /\ CheckStart(c)

NextStable ==
    \/ ProductUpdate
    \/ \E c \in {1, 2} :
        \/ CheckAfter(c)
        \/ CheckBatch(c)
        \/ CheckFetched(c)

SpecStable == InitStable /\ [][NextStable]_vars

(***************************************************************************)
(* Properties of the price chain operations                                *)
(***************************************************************************)
\* the elements of a sequence
Ids(s) == {s[i] : i \in 1..Len(s)}

\* the number of the key of the account object at heap index id
KeyOf(id) == heap[id].key[1]

KeysOf(s) == [i \in 1..Len(s) |-> KeyOf(s[i])]

\* the list on chain from the key first on; empty when first is absent
ChainFrom(ch, first) ==
    IF first = None THEN <<>> ELSE SubSeq(ch, Pos(ch, first[1]), Len(ch))

\* for each price type among the account objects s, the last of that type
LastOfType(s) ==
    [t \in {heap[s[i]].price_type : i \in 1..Len(s)} |->
        s[CHOOSE i \in 1..Len(s) :
            /\ heap[s[i]].price_type = t
            /\ \A j \in (i + 1)..Len(s) : heap[s[j]].price_type # t]]

\* the dict d maps each price type among the account objects s to the last
\* of that type
IsMapOf(d, s) ==
    /\ PriceMap(d) = LastOfType(s)
    /\ Len(d) = Cardinality(DOMAIN LastOfType(s))

\* the account object at id holds what is on chain for its key
Decoded(id) ==
    /\ Pos(chain, KeyOf(id)) # 0
    /\ heap[id].price_type = TypeOf(KeyOf(id))
    /\ heap[id].next_price_account_key =
            IF NextOf(chain, KeyOf(id)) = 0 THEN None
            ELSE KeyBytes(NextOf(chain, KeyOf(id)))

\* no two accounts of the list share a price type
TypeDistinct(ch) ==
    \A i, j \in 1..Len(ch) : TypeOf(ch[i]) = TypeOf(ch[j]) => i = j

\* the last step was the return of a call of c whose walk saw one list: the
\* list on chain did not change between the call and its return
Returned(c) ==
    /\ last.done /\ last.c = c
    /\ calls[c].ret.start = changes

\* the cached price set: the dict, and the contents of the accounts in it
CacheIds ==
    IF product._prices = None THEN {}
    ELSE {Val(product._prices)[i].v : i \in 1..Len(Val(product._prices))}

CacheView == [map |-> product._prices, contents |-> [i \in CacheIds |-> heap[i]]]

\* the steps of refresh_prices, get_prices and check_price_changes
CallStep(l) ==
    l.op \in {"refresh_prices", "get_prices", "check_price_changes", "fetched",
              "batch_fetched", "fail"}

\* C1: diff refresh. When check_price_changes(update_accounts=True) returns
\* on a product whose price set was loaded, the list on chain being the same
\* throughout the call and holding no two accounts of one price type: added
\* is the accounts of the keys on the list that were not in the previous set,
\* in the order of the list, each a new object; removed is the accounts of
\* the previous set whose keys are not on the list; and the cached dict maps
\* the price types to exactly the accounts of the list.
C1_DiffRefresh ==
    \A c \in DOMAIN calls :
        LET ret == calls[c].ret
            knownKeys == {KeyOf(id) : id \in Ids(ret.known)}
            IsNew(k) == k \notin knownKeys
            Gone(id) == Pos(chain, KeyOf(id)) = 0
        IN (Returned(c) /\ ret.op = "check" /\ ret.update_accounts
            /\ TypeDistinct(chain))
           => /\ KeysOf(ret.added) = SelectSeq(chain, IsNew)
              /\ Ids(ret.added) \cap Ids(ret.known) = {}
              /\ ret.removed = SelectSeq(ret.known, Gone)
              /\ product._prices = Some(ret.prices)
              /\ Len(ret.prices) = Len(chain)
              /\ \A i \in 1..Len(chain) :
                    LET id == PriceMap(ret.prices)[TypeOf(chain[i])]
                    IN /\ KeyOf(id) = chain[i]
                       /\ Decoded(id)
                       /\ id \in Ids(ret.known) \cup Ids(ret.added)

\* C1 witness: the previous set held the account 1, the list is now 2 alone:
\* the account of 2 was added, that of 1 removed, the cached dict holds the
\* account of 2
C1_Witness ==
    /\ Returned(1) /\ calls[1].ret.op = "check" /\ calls[1].ret.update_accounts
    /\ chain = <<2>>
    /\ KeysOf(calls[1].ret.known) = <<1>>
    /\ KeysOf(calls[1].ret.added) = <<2>>
    /\ KeysOf(calls[1].ret.removed) = <<1>>
    /\ KeysOf(DictValues(Val(product._prices))) = <<2>>

\* C2 as claimed: no step of refresh_prices or check_price_changes before
\* the return, a failed or cancelled fetch among them, changes the cached
\* price set: the same dict of the same accounts with the same contents.
C2_CacheUntouchedUntilBuilt ==
    [][(CallStep(last') /\ ~last'.done) => CacheView' = CacheView]_vars

\* C2 as amended: no step before the return assigns the cached dict, and the
\* return assigns it the dict the call built; the contents of the accounts
\* in it are left alone by every step before the return but one: the batch
\* fetch of check_price_changes(update_accounts=True), which decodes the
\* product and the cached accounts in place before the walk.
C2_DictReplacedOnCompletion ==
    [][CallStep(last')
       => /\ ~last'.done => product'._prices = product._prices
          /\ (~last'.done /\ last'.op # "batch_fetched") => CacheView' = CacheView
          /\ last'.done => product'._prices = Some(calls'[last'.c].ret.prices)]_vars

\* C2 witness: a fetch of the walk of check_price_changes failed after the
\* batch fetch; the cached dict is the one loaded before, whose account of
\* key 1 now points to an account that is not in the dict
C2_Witness ==
    /\ last.op = "fail" /\ last.arg = <<"check", "fetch">>
    /\ product._prices # None
    /\ \E id \in CacheIds :
        /\ heap[id].next_price_account_key # None
        /\ \A other \in CacheIds :
                heap[other].key # heap[id].next_price_account_key

\* C10: price-chain refresh. When refresh_prices returns, the list on chain
\* being the same throughout the call and holding the first key the product
\* had at the call (or that key being absent): one account was fetched and
\* decoded per element of the list from the first key on, in the order of
\* the list; the dict returned is the cached dict and maps each price type
\* of these accounts to the last of them of that type; with no first key the
\* dict is empty and nothing was fetched.
C10_RefreshWalksChain ==
    \A c \in DOMAIN calls :
        LET ret == calls[c].ret
        IN (Returned(c) /\ ret.op \in {"refresh", "get", "check_unloaded"}
            /\ (ret.first = None \/ Pos(chain, ret.first[1]) # 0))
           => /\ KeysOf(ret.walked) = ChainFrom(chain, ret.first)
              /\ \A id \in Ids(ret.walked) : Decoded(id)
              /\ IsMapOf(ret.prices, ret.walked)
              /\ product._prices = Some(ret.prices)
              /\ ret.first = None
                    => (ret.prices = <<>> /\ ret.walked = <<>> /\ last.op # "fetched")

\* C10 witness: the list 1, 3 was walked; the two accounts share a price
\* type and the dict holds the account of 3 for it
C10_Witness ==
    /\ Returned(1) /\ calls[1].ret.op = "refresh"
    /\ chain = <<1, 3>>
    /\ KeysOf(calls[1].ret.walked) = <<1, 3>>
    /\ Len(calls[1].ret.prices) = 1
    /\ KeyOf(PriceMap(calls[1].ret.prices)[TypeOf(1)]) = 3

\* C8 as claimed: decoding a product record into the product leaves the
\* cached price set unchanged.
C8_DecodeKeepsCache ==
    [][last'.op = "product_update" => product'._prices = product._prices]_vars

\* C8 as amended: the cached price set is changed only by the return of
\* refresh_prices, get_prices when nothing is loaded and check_price_changes,
\* and by decoding a product record whose first price key is all-zero, which
\* sets it to the empty dict; decoding a record with a first price key and
\* get_prices on a loaded product leave it unchanged.
C8_CacheChangedOnlyByRefreshOrNullFirstKey ==
    [][/\ product'._prices # product._prices
            => \/ /\ last'.op \in {"refresh_prices", "get_prices",
                                   "check_price_changes", "fetched", "batch_fetched"}
                  /\ last'.done
               \/ /\ last'.op = "product_update"
                  /\ product'.first_price_account_key = None
       /\ last'.op = "product_update"
            => product'._prices = IF product'.first_price_account_key = None
                                  THEN Some(<<>>) ELSE product._prices
       /\ (last'.op = "get_prices" /\ product._prices # None)
            => product'._prices = product._prices]_vars

\* C8 witness: refresh_prices had loaded a price set that was not empty; the
\* list on chain became empty and decoding the product record emptied the
\* cached set
C8_Witness ==
    /\ last.op = "product_update"
    /\ product._prices = Some(<<>>)
    /\ calls[1].run.pc = "done"
    /\ calls[1].ret.op = "refresh" /\ calls[1].ret.prices # <<>>

\* the list l of account objects is the chain of the product: its first
\* key, then each account's next key, up to an absent next key
ExactChain(self, h, l) ==
    IF l = <<>> THEN self.first_price_account_key = None
    ELSE /\ h[l[1]].key = self.first_price_account_key
         /\ \A i \in 1..(Len(l) - 1) : h[l[i + 1]].key = h[l[i]].next_price_account_key
         /\ h[l[Len(l)]].next_price_account_key = None

\* C6: use_price_accounts raises unless the list is exactly the chain of the
\* product, and then leaves the product as it was; given the chain it sets
\* the cached price set to the price-type dict of the accounts of the list.
C6_UseAcceptsExactChain ==
    [][last'.op = "use_price_accounts"
       => /\ last'.raised <=> ~ExactChain(product, heap, last'.arg)
          /\ last'.raised => product' = product
          /\ ~last'.raised
                => /\ product'._prices # None
                   /\ IsMapOf(Val(product'._prices), last'.arg)
                   /\ product' = [product EXCEPT !._prices = product'._prices]]_vars

\* C6 witness: a list of two accounts of two price types, the chain of the
\* product, was accepted and the cached set is the dict of the two
C6_Witness ==
    /\ last.op = "use_price_accounts" /\ ~last.raised
    /\ Len(last.arg) = 2
    /\ product._prices # None
    /\ Len(Val(product._prices)) = 2
    /\ PriceMap(Val(product._prices)) = LastOfType(last.arg)

\* C9: concurrent refreshes. The dict a call of refresh_prices returns maps
\* the price types of the accounts it fetched itself, and of no other, to
\* the last of each type; the accounts of two calls are different objects;
\* the cached price set changes only at the return of a call, to the dict of
\* that call (or by a product record with no first key, to the empty dict);
\* when both calls have returned it is the dict of the call that returned
\* last.
C9_LastWriterWins ==
    /\ [](\A c \in DOMAIN calls :
            /\ calls[c].ret.op = "refresh"
                => /\ IsMapOf(calls[c].ret.prices, calls[c].ret.walked)
                   /\ \A d \in DOMAIN calls \ {c} :
                        Ids(calls[c].ret.walked) \cap
                            (Ids(calls[d].ret.walked) \cup Ids(calls[d].run.walked)) = {}
            /\ (last.done /\ last.c = c /\ \A d \in DOMAIN calls : calls[d].run.pc = "done")
                => product._prices = Some(calls[c].ret.prices))
    /\ [][product'._prices # product._prices
            => \/ /\ last'.done
                  /\ product'._prices = Some(calls'[last'.c].ret.prices)
               \/ /\ last'.op = "product_update"
                  /\ product'._prices = Some(<<>>)]_vars

\* C9 witness: the two calls overlapped (the first call created its account
\* before the second call created its own, and returned after it); the
\* cached set is the dict of the first call, not the other's
C9_Witness ==
    /\ DOMAIN calls = {1, 2}
    /\ calls[1].run.pc = "done" /\ calls[2].run.pc = "done"
    /\ calls[1].ret.walked = <<1>> /\ calls[2].ret.walked = <<2>>
    /\ last.done /\ last.c = 1
    /\ product._prices = Some(calls[1].ret.prices)
    /\ product._prices # Some(calls[2].ret.prices)

\* C12: diff refresh is stable. When check_price_changes is called on a
\* product whose price set is loaded, and called again once it has returned,
\* both times with its default update_accounts=True and the list on chain the
\* same throughout, whether or not two accounts of the list share a price
\* type: the second call returns no added and no removed account, and the
\* dict it caches has the same price types as the dict the first call cached.
C12_DiffRefreshStable ==
    (/\ calls[1].ret.op = "check" /\ calls[1].ret.update_accounts
     /\ calls[2].ret.op = "check" /\ calls[2].ret.update_accounts)
    => /\ calls[2].ret.added = <<>>
       /\ calls[2].ret.removed = <<>>
       /\ DictKeys(calls[2].ret.prices) = DictKeys(calls[1].ret.prices)

\* C12 witness: the list is 1, 3, two accounts of one price type, and was so
\* when the price set was loaded. Both calls have returned. The second knew
\* the account of 3 alone, suspended at the fetch of a new object for the
\* account of 1 and returned it as added, as the first call had done; none
\* was removed and the cached dict holds the account of 3.
C12_Witness ==
    /\ chain = <<1, 3>>
    /\ KeysOf(calls[0].ret.walked) = <<1, 3>>
    /\ calls[1].ret.op = "check" /\ calls[1].ret.update_accounts
    /\ KeysOf(calls[1].ret.added) = <<1>>
    /\ calls[2].ret.op = "check" /\ calls[2].ret.update_accounts
    /\ KeysOf(calls[2].ret.known) = <<3>>
    /\ KeysOf(calls[2].ret.added) = <<1>>
    /\ calls[2].ret.added = <<4>> /\ Len(heap) = 4
    /\ calls[2].ret.removed = <<>>
    /\ KeysOf(DictValues(Val(product._prices))) = <<3>>

====
